---- MODULE Spec2Model ----
(***************************************************************************)
(* Model of distribute() in distribute_products.py: the two SQL statements *)
(* that fill the shipments table from branch_products, needs, stores and   *)
(* rc_products (the tables created in populate_db.py).                     *)
(*                                                                         *)
(* NUMERIC columns are fixed-point numbers: a NUMERIC value x is held as   *)
(* the integer x * Scale.  INT and BIGINT columns are held as they are.    *)
(* A table with a primary key is a function from its key to the rest of    *)
(* the row; shipments, which has no key, is a bag of rows.                 *)
(***************************************************************************)
EXTENDS Integers, FiniteSets, Sequences, Bags, TLC

Branches == {"b1", "b2"}
Products == {"p1", "p2"}
Locations == {"rc1", "rc2"}

\* Resolution of NUMERIC values: quantities are multiples of 1/Scale.
Scale == 2
\* Largest need (INT, whole units) of a needs row.
MaxNeed == 1
\* Largest stock, reserve + transit of a branch_products row, in 1/Scale units.
MaxBranchQty == 1
\* Largest stock of one rc_products row, in 1/Scale units.
MaxCentralQty == 2
\* Largest priority and min_shipment of a stores row.
MaxPriority == 2
MaxMinShipment == 2

VARIABLES
    branch_products,  \* [<<product_id, branch_id>> -> [stock, reserve, transit]]
    rc_products,      \* [<<product_id, location>> -> stock]
    needs,            \* [<<product_id, branch_id>> -> need]
    stores,           \* [branch_id -> [priority, min_shipment]]
    shipments,        \* bag of [branch_id, product_id, shipment_qty]
    zeroed,           \* rows the last adjustment statement deleted
    inserted,         \* rows the last adjustment statement inserted
    pc,               \* "start", "created", "distributed", "done"
    prev              \* the shipments tables earlier complete runs left

vars == <<branch_products, rc_products, needs, stores, shipments, zeroed,
          inserted, pc, prev>>

----------------------------------------------------------------------------
\* Arithmetic of the SQL types

Max(a, b) == IF a >= b THEN a ELSE b
Min(a, b) == IF a <= b THEN a ELSE b

\* An INT or BIGINT taken as NUMERIC.
Num(i) == i * Scale

\* NUMERIC -> INT / BIGINT (a cast, or the assignment to an INT column):
\* PostgreSQL rounds to the nearest integer, ties away from zero.
RoundToInt(x) ==
    IF x >= 0 THEN (2 * x + Scale) \div (2 * Scale)
    ELSE -((2 * (-x) + Scale) \div (2 * Scale))

RECURSIVE SumOver(_, _)
\* SUM(f[x]) over the set S.
SumOver(S, f) ==
    IF S = {} THEN 0
    ELSE LET x == CHOOSE y \in S : TRUE
         IN f[x] + SumOver(S \ {x}, f)

\* SUM(shipment_qty) over the rows of bag B whose column col is in vals.
BagSum(B, col, vals) ==
    LET rows == {r \in BagToSet(B) : r[col] \in vals}
    IN SumOver(rows, [r \in rows |-> r.shipment_qty * CopiesIn(r, B)])

\* The rows of bag B whose column col is in vals, as a bag.
BagFilter(B, col, vals) ==
    LET rows == {r \in BagToSet(B) : r[col] \in vals}
    IN [r \in rows |-> CopiesIn(r, B)]

\* The orders ROW_NUMBER() OVER (ORDER BY priority DESC) may number the rows
\* S in: every permutation with priority non-increasing.  Rows of equal
\* priority have no defined order.
RowOrders(S, prio) ==
    {s \in [1..Cardinality(S) -> S] :
        /\ \A i, j \in 1..Cardinality(S) : i # j => s[i] # s[j]
        /\ \A i, j \in 1..Cardinality(S) :
              i < j => prio[s[i]] >= prio[s[j]]}

\* ROW_NUMBER() of x in the order s.
RowNumber(s, x) == CHOOSE i \in DOMAIN s : s[i] = x

----------------------------------------------------------------------------
\* The input tables as one value

Db == [bp |-> branch_products, rc |-> rc_products, needs |-> needs,
       stores |-> stores]

\* The <<product_id, branch_id>> keys of bp JOIN needs JOIN stores.
JoinedKeys(db) ==
    {k \in DOMAIN db.bp \cap DOMAIN db.needs : k[2] \in DOMAIN db.stores}

\* GREATEST(0, need - (stock + transit - reserve)), a NUMERIC.
Deficit(db, k) ==
    Max(0, Num(db.needs[k])
             - (db.bp[k].stock + db.bp[k].transit - db.bp[k].reserve))

----------------------------------------------------------------------------
\* distribution_sql, one operator for each common table expression.  A
\* common table expression is the set of its rows.

\* available: bp JOIN needs JOIN stores.
Available(db) ==
    {[product_id |-> k[1], branch_id |-> k[2], deficit |-> Deficit(db, k),
      priority |-> db.stores[k[2]].priority] : k \in JoinedKeys(db)}

\* rc: SUM(stock)::BIGINT AS total_stock FROM rc_products GROUP BY product_id.
Rc(db) ==
    {[product_id |-> p,
      total_stock |->
          RoundToInt(SumOver({k \in DOMAIN db.rc : k[1] = p}, db.rc))] :
        p \in {k[1] : k \in DOMAIN db.rc}}

\* sum_weights without its GROUP BY: one total over every product.
SumWeightsUngrouped(a) ==
    {[product_id |-> p,
      total_weight |-> SumOver(a, [r \in a |-> r.deficit * r.priority])] :
        p \in {r.product_id : r \in a}}

\* sum_weights: SUM(deficit * priority) FROM available GROUP BY product_id.
SumWeights(a) ==
    {[product_id |-> p,
      total_weight |->
          LET g == {r \in a : r.product_id = p}
          IN SumOver(g, [r \in g |-> r.deficit * r.priority])] :
        p \in {r.product_id : r \in a}}

\* first_alloc: available JOIN rc JOIN sum_weights ON product_id.
FirstAlloc(a, rc, sw) ==
    {[product_id |-> t[1].product_id, branch_id |-> t[1].branch_id,
      deficit |-> t[1].deficit, priority |-> t[1].priority,
      total_stock |-> t[2].total_stock, total_weight |-> t[3].total_weight] :
        t \in {u \in a \X rc \X sw :
                 /\ u[2].product_id = u[1].product_id
                 /\ u[3].product_id = u[1].product_id}}

\* shipped without LEAST(..., deficit), and with GREATEST for LEAST.
ShippedUncapped(r) ==
    Num(IF r.total_weight = 0 THEN 0
        ELSE (r.total_stock * (r.deficit * r.priority)) \div r.total_weight)
ShippedGreatest(r) ==
    Max(Num(IF r.total_weight = 0 THEN 0
            ELSE (r.total_stock * (r.deficit * r.priority))
                     \div r.total_weight),
        r.deficit)

\* The shipped column of first_pass:
\* LEAST(COALESCE(FLOOR(total_stock * (deficit * priority)::numeric
\*                      / NULLIF(total_weight, 0))::int, 0), deficit).
Shipped(r) ==
    Min(Num(IF r.total_weight = 0 THEN 0
            ELSE (r.total_stock * (r.deficit * r.priority))
                     \div r.total_weight),
        r.deficit)

\* first_pass.
FirstPass(fa) ==
    {[product_id |-> r.product_id, branch_id |-> r.branch_id,
      deficit |-> r.deficit, priority |-> r.priority,
      shipped |-> Shipped(r)] : r \in fa}

\* remaining: rc.total_stock - SUM(fp.shipped) FROM first_pass fp JOIN rc
\* GROUP BY fp.product_id, rc.total_stock.
Remaining(fp, rc) ==
    {[product_id |-> c.product_id,
      remaining |->
          LET g == {r \in fp : r.product_id = c.product_id}
          IN Num(c.total_stock) - SumOver(g, [r \in g |-> r.shipped])] :
        c \in {d \in rc : \E r \in fp : r.product_id = d.product_id}}

\* pass1: first_pass JOIN remaining ON product_id.
Pass1(fp, rem) ==
    {[product_id |-> t[1].product_id, branch_id |-> t[1].branch_id,
      deficit |-> t[1].deficit - t[1].shipped, priority |-> t[1].priority,
      shipped |-> t[1].shipped, remaining |-> t[2].remaining] :
        t \in {u \in fp \X rem : u[2].product_id = u[1].product_id}}

\* The rows of pass1 for the input tables db.
Pass1Of(db) ==
    LET a == Available(db)
        rc == Rc(db)
        fp == FirstPass(FirstAlloc(a, rc, SumWeights(a)))
    IN Pass1(fp, Remaining(fp, rc))

\* The orders a window (PARTITION BY product_id ORDER BY priority DESC) may
\* number the rows in: for each product_id an order of the branch_ids of its
\* rows.
WindowOrders(rows) ==
    LET ps == {r.product_id : r \in rows}
        bs(p) == {r.branch_id : r \in {q \in rows : q.product_id = p}}
        prio(p) ==
            [b \in bs(p) |->
                (CHOOSE r \in rows : r.product_id = p /\ r.branch_id = b).priority]
        os(p) == RowOrders(bs(p), prio(p))
    IN {o \in [ps -> UNION {os(p) : p \in ps}] : \A p \in ps : o[p] \in os(p)}

\* second_pass: shipment_qty (NUMERIC) =
\* shipped + CASE WHEN ROW_NUMBER() <= remaining THEN 1 ELSE 0 END.
SecondPass(p1, ord) ==
    {[branch_id |-> r.branch_id, product_id |-> r.product_id,
      shipment_qty |->
          r.shipped
            + (IF Num(RowNumber(ord[r.product_id], r.branch_id)) <= r.remaining
               THEN Num(1) ELSE 0)] : r \in p1}

\* INSERT INTO shipments ... FROM second_pass WHERE shipment_qty > 0:
\* the rows inserted, shipment_qty cast to the INT column.
DistributionSql(db, ord) ==
    SetToBag({[branch_id |-> r.branch_id, product_id |-> r.product_id,
               shipment_qty |-> RoundToInt(r.shipment_qty)] :
                 r \in {q \in SecondPass(Pass1Of(db), ord) : q.shipment_qty > 0}})

----------------------------------------------------------------------------
\* adjustment_sql

\* branch_sums: SUM(shipment_qty) FROM shipments GROUP BY branch_id.
BranchSums(sh) ==
    {[branch_id |-> b,
      total_shipment |-> BagSum(sh, "branch_id", {b})] :
        b \in {r.branch_id : r \in BagToSet(sh)}}

\* to_zero with the total compared to the wrong column of stores.
ToZeroByPriority(db, sh) ==
    {bs.branch_id :
        bs \in {t \in BranchSums(sh) :
                  /\ t.branch_id \in DOMAIN db.stores
                  /\ t.total_shipment < db.stores[t.branch_id].priority}}

\* to_zero: branch_sums JOIN stores WHERE total_shipment < min_shipment.
ToZero(db, sh) ==
    {bs.branch_id :
        bs \in {t \in BranchSums(sh) :
                  /\ t.branch_id \in DOMAIN db.stores
                  /\ t.total_shipment < db.stores[t.branch_id].min_shipment}}

\* zeroed: the rows DELETE FROM shipments sh USING to_zero tz
\* WHERE sh.branch_id = tz.branch_id removes.
Zeroed(db, sh) ==
    LET tz == ToZero(db, sh)
    IN BagFilter(sh, "branch_id", tz)

\* leftovers: SUM(shipment_qty) FROM zeroed GROUP BY product_id.
Leftovers(z) ==
    {[product_id |-> p, leftover |-> BagSum(z, "product_id", {p})] :
        p \in {r.product_id : r \in BagToSet(z)}}

\* avail: bp JOIN stores JOIN needs WHERE deficit > 0.
Avail(db) ==
    {[branch_id |-> k[2], product_id |-> k[1],
      priority |-> db.stores[k[2]].priority] :
        k \in {j \in JoinedKeys(db) : Deficit(db, j) > 0}}

\* The rows of leftovers JOIN avail ON product_id.
AllocJoin(l, av) ==
    {[branch_id |-> t[2].branch_id, product_id |-> t[1].product_id,
      priority |-> t[2].priority, leftover |-> t[1].leftover] :
        t \in {u \in l \X av : u[2].product_id = u[1].product_id}}

\* alloc with ROW_NUMBER() < leftover.
AllocStrict(rows, ord) ==
    {[branch_id |-> r.branch_id, product_id |-> r.product_id,
      add_qty |->
          IF RowNumber(ord[r.product_id], r.branch_id) < r.leftover
          THEN 1 ELSE 0] : r \in rows}

\* alloc: add_qty = CASE WHEN ROW_NUMBER() <= leftover THEN 1 ELSE 0 END.
Alloc(rows, ord) ==
    {[branch_id |-> r.branch_id, product_id |-> r.product_id,
      add_qty |->
          IF RowNumber(ord[r.product_id], r.branch_id) <= r.leftover
          THEN 1 ELSE 0] : r \in rows}

\* INSERT INTO shipments ... FROM alloc WHERE add_qty > 0: the rows inserted.
Inserted(al) ==
    SetToBag({[branch_id |-> r.branch_id, product_id |-> r.product_id,
               shipment_qty |-> r.add_qty] : r \in {q \in al : q.add_qty > 0}})

\* The rows alloc numbers, for the input tables db and the shipments sh.
AllocJoinOf(db, sh) == AllocJoin(Leftovers(Zeroed(db, sh)), Avail(db))

\* The shipments table after the statement: the deleted rows gone, the
\* allocated rows appended.
AdjustmentSql(db, sh, ord) ==
    (sh (-) Zeroed(db, sh)) (+) Inserted(Alloc(AllocJoinOf(db, sh), ord))

----------------------------------------------------------------------------
\* The program

\* The rows of the input tables: what create_tables() of populate_db.py
\* admits (NUMERIC stock, reserve, transit; INT need, priority,
\* min_shipment), non-negative and bounded.
RcKeys == {<<"p1", "rc1">>, <<"p1", "rc2">>, <<"p2", "rc1">>}

BranchRow ==
    [stock : 0..MaxBranchQty, reserve : 0..MaxBranchQty,
     transit : 0..MaxBranchQty]

\* The branch_products rows hold at most MaxBranchQty 1/Scale units in all.
BranchQty(bp) ==
    SumOver(DOMAIN bp,
            [k \in DOMAIN bp |-> bp[k].stock + bp[k].reserve + bp[k].transit])

InputTables ==
    /\ branch_products \in [Products \X Branches -> BranchRow]
    /\ BranchQty(branch_products) <= MaxBranchQty
    /\ rc_products \in [RcKeys -> 0..MaxCentralQty]
    /\ needs \in [Products \X Branches -> 0..MaxNeed]
    /\ stores \in [Branches -> [priority : 1..MaxPriority,
                                min_shipment : 1..MaxMinShipment]]

Init ==
    /\ InputTables
    /\ shipments = EmptyBag
    /\ zeroed = EmptyBag
    /\ inserted = EmptyBag
    /\ pc = "start"
    /\ prev = {}

\* DROP TABLE IF EXISTS shipments; CREATE TABLE shipments (...); commit.
CreateTable ==
    /\ pc = "start"
    /\ shipments' = EmptyBag
    /\ zeroed' = EmptyBag
    /\ inserted' = EmptyBag
    /\ pc' = "created"
    /\ UNCHANGED <<branch_products, rc_products, needs, stores, prev>>

\* cur.execute(distribution_sql); commit.
Distribute ==
    /\ pc = "created"
    /\ \E ord \in WindowOrders(Pass1Of(Db)) :
          shipments' = shipments (+) DistributionSql(Db, ord)
    /\ pc' = "distributed"
    /\ UNCHANGED <<branch_products, rc_products, needs, stores, zeroed,
                   inserted, prev>>

\* cur.execute(adjustment_sql); commit.
Adjust ==
    /\ pc = "distributed"
    /\ \E ord \in WindowOrders(AllocJoinOf(Db, shipments)) :
          /\ shipments' = AdjustmentSql(Db, shipments, ord)
          /\ inserted' = Inserted(Alloc(AllocJoinOf(Db, shipments), ord))
    /\ zeroed' = Zeroed(Db, shipments)
    /\ pc' = "done"
    /\ UNCHANGED <<branch_products, rc_products, needs, stores, prev>>

Next == CreateTable \/ Distribute \/ Adjust

Spec == Init /\ [][Next]_vars

\* The script is run again on the same input tables; prev keeps the
\* shipments table the run before left.
Rerun ==
    /\ pc = "done"
    /\ prev' = {shipments}
    /\ pc' = "start"
    /\ UNCHANGED <<branch_products, rc_products, needs, stores, shipments,
                   zeroed, inserted>>

NextRerun == CreateTable \/ Distribute \/ Adjust \/ Rerun

\* A second family of input tables, in whole units: one product held by
\* both branches, with the quantities of the worked scenarios (central stock
\* about 10, deficits about 5, priorities 2 and 3).
ScenarioKeys == {"p1"} \X Branches

InitScenario ==
    /\ branch_products \in
          [ScenarioKeys -> [stock : {0, Num(1)}, reserve : {0},
                            transit : {0, Num(1)}]]
    /\ rc_products \in
          {f \in [{"p1"} \X Locations -> {0, Num(1), Num(9), Num(10)}] :
              f[<<"p1", "rc1">>] >= Num(9) /\ f[<<"p1", "rc2">>] <= Num(1)}
    /\ needs \in [ScenarioKeys -> 5..6]
    /\ stores \in [Branches -> [priority : 2..3, min_shipment : {1, 5}]]
    /\ shipments = EmptyBag
    /\ zeroed = EmptyBag
    /\ inserted = EmptyBag
    /\ pc = "start"
    /\ prev = {}

SpecScenario == InitScenario /\ [][NextRerun]_vars

----------------------------------------------------------------------------
\* Quantities the properties speak of

\* The shipments rows of product p, and of branch b.
RowsOfProduct(sh, p) == BagFilter(sh, "product_id", {p})
RowsOfBranch(sh, b) == BagFilter(sh, "branch_id", {b})

\* SUM(shipment_qty) of the rows of product p, and of branch b.
ProductTotal(sh, p) == BagSum(sh, "product_id", {p})
BranchTotal(sh, b) == BagSum(sh, "branch_id", {b})

\* The total central stock of product p: the sum of rc_products.stock over
\* its locations (a NUMERIC).
CentralStock(p) ==
    SumOver({k \in DOMAIN rc_products : k[1] = p}, rc_products)

\* The branches with a positive deficit for product p.
Eligible(p) ==
    {b \in Branches : <<p, b>> \in JoinedKeys(Db) /\ Deficit(Db, <<p, b>>) > 0}

\* The shipments table the adjustment statement found (before), and what its
\* DELETE left of it (kept), from the table it produced.
Kept == shipments (-) inserted
Before == Kept (+) zeroed

\* The input tables without the rows of the products other than p.
Restrict(db, p) ==
    [bp |-> [k \in {j \in DOMAIN db.bp : j[1] = p} |-> db.bp[k]],
     rc |-> [k \in {j \in DOMAIN db.rc : j[1] = p} |-> db.rc[k]],
     needs |-> [k \in {j \in DOMAIN db.needs : j[1] = p} |-> db.needs[k]],
     stores |-> db.stores]

\* Every shipments table the distribution statement may write for db, and
\* every table the two statements may leave.
DistributionOutcomes(db) ==
    {DistributionSql(db, ord) : ord \in WindowOrders(Pass1Of(db))}
FinalOutcomes(db) ==
    UNION {{AdjustmentSql(db, d, ord) :
               ord \in WindowOrders(AllocJoinOf(db, d))} :
             d \in DistributionOutcomes(db)}

----------------------------------------------------------------------------
\* Properties

\* Every NUMERIC quantity of the input tables is a whole number.
WholeQuantities ==
    /\ \A k \in DOMAIN rc_products : rc_products[k] % Scale = 0
    /\ \A k \in DOMAIN branch_products :
          /\ branch_products[k].stock % Scale = 0
          /\ branch_products[k].reserve % Scale = 0
          /\ branch_products[k].transit % Scale = 0

\* The distribution statement wrote rows only for pairs with a deficit.
ShippedToDeficitOnly ==
    \A r \in BagToSet(Before) : Deficit(Db, <<r.product_id, r.branch_id>>) > 0

\* No two branches have the same priority: the windows have one order.
DistinctPriorities ==
    \A b, c \in Branches : b # c => stores[b].priority # stores[c].priority

\* C1: after both statements, for every product the sum of shipment_qty over
\* its shipment rows is at most its total central stock.  (Stated for the
\* runs that wrote no row for a pair without deficit.)
C1_ShippedWithinCentralStock ==
    (pc = "done" /\ ShippedToDeficitOnly) =>
        \A p \in Products : Num(ProductTotal(shipments, p)) <= CentralStock(p)

\* C2: in the final output no (branch, product) pair with deficit 0 has a
\* shipment row.  (Stated for whole quantities.)
C2_NoShipmentWithoutDeficit ==
    (pc = "done" /\ WholeQuantities) =>
        \A r \in BagToSet(shipments) :
            Deficit(Db, <<r.product_id, r.branch_id>>) > 0

\* Scenario B: one product, central stock 11, deficits 5 and 5, priorities 2
\* and 3, min_shipment low enough that no branch is pruned.
ScenarioB ==
    /\ CentralStock("p1") = Num(11)
    /\ \A b \in Branches : Deficit(Db, <<"p1", b>>) = Num(5)
    /\ stores["b1"].priority = 2
    /\ stores["b2"].priority = 3
    /\ stores["b1"].min_shipment <= 4
    /\ stores["b2"].min_shipment <= 4

\* The shipments table with quantity q1 for b1 and q2 for b2.
ShipmentsOf(q1, q2) ==
    SetToBag({[branch_id |-> "b1", product_id |-> "p1", shipment_qty |-> q1],
              [branch_id |-> "b2", product_id |-> "p1", shipment_qty |-> q2]})

\* The shipped column of pass1 is s1 for b1 and s2 for b2, remaining is rem.
FirstPassIs(s1, s2, rem) ==
    \A r \in Pass1Of(Db) :
        /\ r.shipped = IF r.branch_id = "b1" THEN Num(s1) ELSE Num(s2)
        /\ r.remaining = Num(rem)

\* C3, as claimed: in scenario B the first pass gives 4 and 6, remaining is
\* 1, and the final shipments are 4 and 7.
C3_ScenarioB_4_7 ==
    (pc = "done" /\ ScenarioB) =>
        FirstPassIs(4, 6, 1) /\ shipments = ShipmentsOf(4, 7)

\* C3, amended: in scenario B the first pass gives 4 and 5 (the share 6 of
\* the priority-3 branch is cut to its deficit 5), remaining is 2, each
\* branch gets one more unit, and the final shipments are 5 and 6.
C3_ScenarioB_5_6 ==
    (pc \in {"distributed", "done"} /\ ScenarioB) =>
        FirstPassIs(4, 5, 2) /\ shipments = ShipmentsOf(5, 6)
C3_Witness ==
    /\ ScenarioB
    /\ pc = "done"
    /\ zeroed = EmptyBag
    /\ shipments = ShipmentsOf(5, 6)

\* C4, as claimed: the final shipment rows of a product are the rows the two
\* statements leave when the rows of every other product are taken away.
\* (Stated for branches of distinct priorities and the runs that wrote no
\* row for a pair without deficit.)
C4_FinalRowsIndependent ==
    (pc = "done" /\ DistinctPriorities /\ ShippedToDeficitOnly) =>
        \A p \in Products :
            RowsOfProduct(shipments, p) \in
                {RowsOfProduct(f, p) : f \in FinalOutcomes(Restrict(Db, p))}

\* C4, amended: the rows the distribution statement writes for a product do
\* not depend on the rows of the other products: they are the rows it writes
\* when the rows of every other product are taken away.
C4_DistributionIndependent ==
    pc = "distributed" =>
        \A p \in Products :
            LET alone == {RowsOfProduct(d, p) :
                            d \in DistributionOutcomes(Restrict(Db, p))}
            IN /\ RowsOfProduct(shipments, p) \in alone
               /\ {RowsOfProduct(d, p) : d \in DistributionOutcomes(Db)} = alone
C4_Witness ==
    /\ pc = "distributed"
    /\ \E b \in Branches :
          \A p \in Products :
              \E r \in BagToSet(shipments) :
                  r.branch_id = b /\ r.product_id = p

\* C5: in the final output every branch with a shipment row has a total
\* shipment of at least its min_shipment.  (Stated for whole quantities
\* and the runs that wrote no row for a pair without deficit.)
C5_FinalTotalAtLeastMin ==
    (pc = "done" /\ WholeQuantities /\ ShippedToDeficitOnly) =>
        \A b \in Branches :
            RowsOfBranch(shipments, b) # EmptyBag =>
                BranchTotal(shipments, b) >= stores[b].min_shipment

\* C6: in the final output there is at most one shipment row for each
\* (branch, product) pair.  (Stated for whole quantities and the runs that
\* wrote no row for a pair without deficit.)
C6_OneRowPerPair ==
    (pc = "done" /\ WholeQuantities /\ ShippedToDeficitOnly) =>
        \A b \in Branches, p \in Products :
            BagCardinality(RowsOfBranch(RowsOfProduct(shipments, p), b)) <= 1

\* C7: after the DELETE of the adjustment statement, a branch whose total
\* shipment was below its min_shipment has no row, a branch that has rows
\* has a total of at least its min_shipment, and every row left is a row
\* that was there.
C7_PrunedBelowMin ==
    pc = "done" =>
        /\ \A b \in Branches :
              /\ BranchTotal(Before, b) < stores[b].min_shipment =>
                    RowsOfBranch(Kept, b) = EmptyBag
              /\ RowsOfBranch(Kept, b) # EmptyBag =>
                    BranchTotal(Kept, b) >= stores[b].min_shipment
        /\ Kept \sqsubseteq Before
C7_Witness ==
    /\ pc = "done"
    /\ \E b \in Branches :
          /\ RowsOfBranch(Before, b) # EmptyBag
          /\ RowsOfBranch(Kept, b) = EmptyBag
    /\ \E b \in Branches : RowsOfBranch(Kept, b) # EmptyBag

\* C8: for every product the units the leftover reallocation adds are
\* min(leftover, number of branches with a positive deficit), hence at most
\* leftover; each receiving branch has a positive deficit and gets one unit.
Leftover(p) == ProductTotal(zeroed, p)
C8_LeftoverReallocation ==
    pc = "done" =>
        \A p \in Products :
            /\ ProductTotal(inserted, p)
                 = Min(Leftover(p), Cardinality(Eligible(p)))
            /\ ProductTotal(inserted, p) <= Leftover(p)
            /\ \A r \in BagToSet(RowsOfProduct(inserted, p)) :
                  /\ r.shipment_qty = 1
                  /\ CopiesIn(r, inserted) = 1
                  /\ r.branch_id \in Eligible(p)
C8_Witness ==
    /\ pc = "done"
    /\ \E p \in Products :
          /\ Leftover(p) > Cardinality(Eligible(p))
          /\ ProductTotal(inserted, p) = 1

\* C9: every complete run on the same input tables leaves the same shipment
\* rows.
C9_Deterministic ==
    pc = "done" => \A before \in prev : before = shipments

\* C10: the first-pass quantity of a (branch, product) never exceeds its
\* deficit, and the quantity after remainder distribution (second_pass)
\* never exceeds the deficit by more than 1.
C10_WithinDeficitPlusOne ==
    pc = "distributed" =>
        LET p1 == Pass1Of(Db)
        IN /\ \A r \in p1 :
                 r.shipped <= Deficit(Db, <<r.product_id, r.branch_id>>)
           /\ \A ord \in WindowOrders(p1) :
                 \A q \in SecondPass(p1, ord) :
                     q.shipment_qty
                        <= Deficit(Db, <<q.product_id, q.branch_id>>) + Num(1)
C10_Witness ==
    /\ pc = "distributed"
    /\ \E ord \in WindowOrders(Pass1Of(Db)) :
          /\ shipments = DistributionSql(Db, ord)
          /\ \E q \in SecondPass(Pass1Of(Db), ord) :
                LET d == Deficit(Db, <<q.product_id, q.branch_id>>)
                IN d > 0 /\ q.shipment_qty = d + Num(1)

====
